---- MODULE Spec2Model ----
(***************************************************************************)
(* Model of the CSV tokenizer, the row adapter (CSVStream) and the window  *)
(* aggregator (WindowAggregator) of projects/csv_parser/csv_parser.py.     *)
(*                                                                         *)
(* Numbers are modelled on the integers; the quotient computed by Python's *)
(* true division is kept as an exact reduced fraction [num, den].  Text is *)
(* modelled as a sequence of one-character strings.                        *)
(*                                                                         *)
(* The module also models LRUCache of code/lru/lru.py, RateLimiter of      *)
(* rate/ratelimiter.py and Database of code/database/database.py, each     *)
(* with a specification of its own over the same variables.                *)
(***************************************************************************)
EXTENDS Integers, Sequences, FiniteSets, TLC

(***************************************************************************)
(* Bounds of the model.                                                    *)
(***************************************************************************)
MaxRows == 3          \* add_row calls in one run
MaxTs == 2            \* largest timestamp fed
MaxWindowSize == 2    \* window_size is drawn from 1..MaxWindowSize
MaxLineLen == 5       \* characters of a line given to the tokenizer
MaxLines == 3         \* physical lines pulled after the header
MaxCap == 2           \* the capacity of a cache is drawn from 1..MaxCap
MaxKey == 3           \* cache keys are 1..MaxKey
MaxRequests == 2      \* max_requests is drawn from 0..MaxRequests
MaxWindowSeconds == 2 \* window_seconds is drawn from 1..MaxWindowSeconds
MaxNow == 2           \* the limiter's clock runs from 0 to MaxNow
MaxClock == 2         \* the database's clock runs from 0 to MaxClock
MaxTtl == 1           \* a ttl is drawn from 0..MaxTtl

(***************************************************************************)
(* Cells: the values CSVStream._value produces and rows carry.             *)
(***************************************************************************)
IntCell(n) == [t |-> "int", n |-> n, s |-> <<>>]
TextCell(str) == [t |-> "str", n |-> 0, s |-> str]

\* isinstance(v, (int, float))
IsNumber(c) == c.t \in {"int", "float"}

(***************************************************************************)
(* State of one WindowAggregator and of the loop that drives it.           *)
(***************************************************************************)
VARIABLES
    window_type,      \* self.window_type
    window_size,      \* self.window_size
    time_column,      \* self.time_column
    _result,          \* self._result
    _window_start,    \* self._window_start
    _rows,            \* self._rows
    ret,              \* what the last add_row / flush call returned
    row_in,           \* the row passed to the last add_row call
    results,          \* the results the driving loop has forwarded so far
    fed               \* number of add_row calls that returned

aggVars == <<window_type, window_size, time_column, _result, _window_start,
             _rows, ret, row_in, results, fed>>

(***************************************************************************)
(* State of one parse_row call and one is_complete_row call on a line.     *)
(***************************************************************************)
VARIABLES
    text,             \* the line / text both calls are given
    pr_i,             \* characters parse_row has read
    curr_state,       \* parse_row: curr_state
    field_list,       \* parse_row: field_list
    field_content,    \* parse_row: field_content
    pr_ret,           \* parse_row: the returned list, once it returned
    ic_i,             \* characters is_complete_row has read
    ic_state,         \* is_complete_row: curr_state
    ic_ret            \* is_complete_row: "running" or the returned boolean

parseVars == <<text, pr_i, curr_state, field_list, field_content, pr_ret,
               ic_i, ic_state, ic_ret>>

(***************************************************************************)
(* State of one CSVStream.iter_rows generator and its line source.         *)
(***************************************************************************)
VARIABLES
    header,           \* self.header
    pc,               \* "start", "loop" (suspended or between lines), "done", "error"
    head,             \* iter_rows: head
    row_list,         \* iter_rows: row_list
    line,             \* iter_rows: the line pulled last
    out,              \* the row_content yielded last
    nyield,           \* rows yielded so far
    consumed,         \* physical lines pulled after the header
    covered           \* physical lines that went into yielded rows

streamVars == <<header, pc, head, row_list, line, out, nyield, consumed, covered>>

(***************************************************************************)
(* State of one LRUCache.                                                  *)
(***************************************************************************)
VARIABLES
    _cache,           \* self._cache: key -> node
    nodes,            \* the Node objects: node -> [key, val, prev, next]
    _cap,             \* self._cap
    lru_ret,          \* the last call and what it returned
    evicted,          \* evict_node.key of the last put, 0 when none
    recency           \* the cached keys, least recently touched first

lruVars == <<_cache, nodes, _cap, lru_ret, evicted, recency>>

(***************************************************************************)
(* State of one RateLimiter and of its clock.                              *)
(***************************************************************************)
VARIABLES
    _max_requests,    \* self._max_requests
    _window_seconds,  \* self._window_seconds
    _strategy,        \* self._strategy
    _bucket_capacity, \* self._bucket_capacity
    _refill_rate,     \* self._refill_rate
    _fixed_window,    \* self._fixed_window
    _counter,         \* self._counter: client -> count
    _logs,            \* self._logs: client -> times of the granted requests
    _buckets,         \* self._buckets: client -> <<token, last_refill>>
    now,              \* what time.time() returns
    rl_ret,           \* the last allow call: client, result, time
    granted           \* client -> time -> requests allow returned True for

rlVars == <<_max_requests, _window_seconds, _strategy, _bucket_capacity,
            _refill_rate, _fixed_window, _counter, _logs, _buckets, now,
            rl_ret, granted>>

(***************************************************************************)
(* State of one Database and of its clock.                                 *)
(***************************************************************************)
VARIABLES
    _data,            \* self._data: key -> value
    _expire,          \* self._expire: key -> time of expiry
    clock,            \* what time.time() returns
    db_ret,           \* the last call, its time and what it returned
    last_set          \* key -> value, ttl and time of its last set

dbVars == <<_data, _expire, clock, db_ret, last_set>>

vars == <<aggVars, parseVars, streamVars, lruVars, rlVars, dbVars>>

\* What the operations of one component leave alone.
nonAggVars == <<parseVars, streamVars, lruVars, rlVars, dbVars>>

nonParseVars == <<aggVars, streamVars, lruVars, rlVars, dbVars>>

nonStreamVars == <<aggVars, parseVars, lruVars, rlVars, dbVars>>

nonLruVars == <<aggVars, parseVars, streamVars, rlVars, dbVars>>

nonRlVars == <<aggVars, parseVars, streamVars, lruVars, dbVars>>

nonDbVars == <<aggVars, parseVars, streamVars, lruVars, rlVars>>

(***************************************************************************)
(* Dictionaries are functions; Put is d[k] = v, Get is d.get(k, default).  *)
(***************************************************************************)
EmptyDict == [x \in {} |-> 0]

Put(d, k, v) == [x \in (DOMAIN d) \cup {k} |-> IF x = k THEN v ELSE d[x]]

Get(d, k, default) == IF k \in DOMAIN d THEN d[k] ELSE default

\* The key "sum_" + k, "max_" + k, ... of a summary; "count" has no column.
Key(stat, col) == [stat |-> stat, col |-> col]

CountKey == Key("count", "")

Max2(a, b) == IF a >= b THEN a ELSE b

Min2(a, b) == IF a <= b THEN a ELSE b

Abs(a) == IF a < 0 THEN -a ELSE a

RECURSIVE Gcd(_, _)
Gcd(a, b) == IF b = 0 THEN a ELSE Gcd(b, a % b)

\* a / b of Python for integers a and b > 0, as a reduced fraction.
TrueDiv(a, b) ==
    LET g == Gcd(Abs(a), b)
    IN  [num |-> a \div g, den |-> b \div g]

\* The body of "for k, v in row.items()" for one item.
FoldItem(result, tcol, k, v) ==
    IF k = tcol THEN result
    ELSE IF ~IsNumber(v) THEN result
    ELSE LET r1 == Put(result, Key("sum", k), Get(result, Key("sum", k), 0) + v.n)
             r2 == Put(r1, Key("max", k),
                       IF Key("max", k) \in DOMAIN r1
                       THEN Max2(r1[Key("max", k)], v.n) ELSE v.n)
         IN  Put(r2, Key("min", k),
                 IF Key("min", k) \in DOMAIN r2
                 THEN Min2(r2[Key("min", k)], v.n) ELSE v.n)

RECURSIVE FoldRow(_, _, _, _)
FoldRow(result, tcol, row, cols) ==
    IF cols = {} THEN result
    ELSE LET k == CHOOSE c \in cols : TRUE
         IN  FoldRow(FoldItem(result, tcol, k, row[k]), tcol, row, cols \ {k})

RECURSIVE FoldRows(_, _, _, _)
FoldRows(result, tcol, rows, i) ==
    IF i > Len(rows) THEN result
    ELSE FoldRows(FoldRow(result, tcol, rows[i], DOMAIN rows[i]), tcol, rows, i + 1)

\* The loop "for key in list(result.keys()): if key.startswith('sum_')".
AddAverages(result) ==
    LET sums == {k \in DOMAIN result : k.stat = "sum"}
        avgs == {Key("avg", k.col) : k \in sums}
    IN  [x \in (DOMAIN result) \cup avgs |->
            IF x \in avgs
            THEN TrueDiv(result[Key("sum", x.col)], result[CountKey])
            ELSE result[x]]

\* WindowAggregator._aggregate
_aggregate(rows, tcol) ==
    AddAverages(FoldRows(Put(EmptyDict, CountKey, Len(rows)), tcol, rows, 1))

(***************************************************************************)
(* Return values: None, a list of summaries, one summary, or an exception. *)
(***************************************************************************)
RetNone(op) == [op |-> op, kind |-> "None", items |-> <<>>]
RetList(op, l) == [op |-> op, kind |-> "list", items |-> l]
RetDict(op, d) == [op |-> op, kind |-> "dict", items |-> <<d>>]
RetError(op, e) == [op |-> op, kind |-> e, items |-> <<>>]

\* Python truth of a returned value: "if result:".
Truthy(r) == r.kind = "dict" \/ (r.kind = "list" /\ r.items # <<>>)

\* The driving loop: "if result: results.append(result)".
Forward(r) == IF Truthy(r) THEN Append(results, r.items) ELSE results

(***************************************************************************)
(* Rows fed to the aggregator.                                             *)
(***************************************************************************)
Timestamps == (-1)..MaxTs

ValueCells == {IntCell(1), IntCell(2), TextCell(<<"x">>)}

AggRows ==
    {[ts |-> IntCell(t), v |-> c] : t \in Timestamps, c \in ValueCells}
    \cup {[v |-> c] : c \in {IntCell(1)}}

\* flush that also returns a summary for a window without rows
flushResult_zero(rows, tcol) == <<_aggregate(rows, tcol)>>

\* WindowAggregator.flush: the list it returns
flushResult(rows, tcol) ==
    IF rows = <<>> THEN <<>> ELSE <<_aggregate(rows, tcol)>>

\* flush that forgets to clear the rows of the closed window
flushRows_keep(rows) == rows

\* WindowAggregator.flush: self._rows when it returns
flushRows(rows) == <<>>

\* WindowAggregator.flush: self._result when it returns
flushAggregate(rows, result) == IF rows = <<>> THEN result ELSE EmptyDict

\* WindowAggregator.flush
flush ==
    /\ ret' = RetList("flush", flushResult(_rows, time_column))
    /\ _rows' = flushRows(_rows)
    /\ _result' = flushAggregate(_rows, _result)
    /\ results' = Forward(ret')
    /\ UNCHANGED <<window_type, window_size, time_column, _window_start,
                   row_in, fed>>
    /\ UNCHANGED nonAggVars

\* [r for r in self._rows if r[self.time_column] >= ts - self.window_size]
SlidingFilter(rows, tcol, ts, size) ==
    SelectSeq(rows, LAMBDA r : r[tcol].n >= ts - size)

\* a boundary test that leaves the row at window_end in the closing window
Crosses_strict(ts, window_end) == ts > window_end

\* "if ts >= window_end"
Crosses(ts, window_end) == ts >= window_end

\* a close that forgets to move the window
NextWindowStart_keep(ws, size, ts) == ws

\* self._window_start after the row with timestamp ts has been looked at
NextWindowStart(ws, size, ts) ==
    IF Crosses(ts, ws + size) THEN (ts \div size) * size ELSE ws

\* row[self.time_column] raises KeyError
add_row_KeyError(row) ==
    /\ time_column \notin DOMAIN row
    /\ ret' = RetError("add_row", "KeyError")
    /\ row_in' = row
    /\ UNCHANGED <<window_type, window_size, time_column, _result,
                   _window_start, _rows, results, fed>>
    /\ UNCHANGED nonAggVars

\* WindowAggregator.add_row, window_type == "sliding"
add_row_sliding(row) ==
    /\ time_column \in DOMAIN row
    /\ window_type = "sliding"
    /\ _rows' = SlidingFilter(Append(_rows, row), time_column,
                              row[time_column].n, window_size)
    /\ ret' = RetDict("add_row", _aggregate(_rows', time_column))
    /\ row_in' = row
    /\ results' = Forward(ret')
    /\ fed' = fed + 1
    /\ UNCHANGED <<window_type, window_size, time_column, _result, _window_start>>
    /\ UNCHANGED nonAggVars

\* WindowAggregator.add_row, tumbling window
add_row_tumbling(row) ==
    /\ time_column \in DOMAIN row
    /\ window_type # "sliding"
    /\ LET ts == row[time_column].n
           window_end == _window_start + window_size
           completed == IF Crosses(ts, window_end)
                        THEN flushResult(_rows, time_column)
                        ELSE <<>>
           kept == IF Crosses(ts, window_end) THEN flushRows(_rows) ELSE _rows
       IN  /\ _window_start' = NextWindowStart(_window_start, window_size, ts)
           /\ _rows' = Append(kept, row)
           /\ _result' = _aggregate(_rows', time_column)
           /\ ret' = IF completed # <<>>
                     THEN RetList("add_row", completed)
                     ELSE RetNone("add_row")
    /\ row_in' = row
    /\ results' = Forward(ret')
    /\ fed' = fed + 1
    /\ UNCHANGED <<window_type, window_size, time_column>>
    /\ UNCHANGED nonAggVars

add_row ==
    /\ fed < MaxRows
    /\ \E row \in AggRows :
          \/ add_row_KeyError(row)
          \/ add_row_sliding(row)
          \/ add_row_tumbling(row)

NoRow == [none |-> IntCell(0)]

\* WindowAggregator.__init__
NewAggregator ==
    /\ window_type \in {"tumbling", "sliding"}
    /\ window_size \in 1..MaxWindowSize
    /\ time_column = "ts"
    /\ _result = EmptyDict
    /\ _window_start = 0
    /\ _rows = <<>>
    /\ ret = RetNone("init")
    /\ row_in = NoRow
    /\ results = <<>>
    /\ fed = 0

\* No aggregator is in use.
IdleAgg ==
    /\ window_type = "tumbling"
    /\ window_size = 1
    /\ time_column = "ts"
    /\ _result = EmptyDict
    /\ _window_start = 0
    /\ _rows = <<>>
    /\ ret = RetNone("init")
    /\ row_in = NoRow
    /\ results = <<>>
    /\ fed = 0

(***************************************************************************)
(* CSVParser: the tokenizer.                                               *)
(***************************************************************************)
delimiter == ","

quotechar == "\""

\* a table in which a delimiter inside a quoted cell ends the cell
transition_rules_split ==
    [FIELD_START |->
        (quotechar :> "QUOTED" @@ delimiter :> "FIELD_START"
         @@ "OTHERS" :> "UNQUOTED"),
     UNQUOTED |->
        (delimiter :> "FIELD_START" @@ "OTHERS" :> "UNQUOTED"),
     QUOTED |->
        (quotechar :> "QUOTE_IN_QUOTED" @@ delimiter :> "FIELD_START"
         @@ "OTHERS" :> "QUOTED"),
     QUOTE_IN_QUOTED |->
        (quotechar :> "QUOTED" @@ delimiter :> "FIELD_START"
         @@ "OTHERS" :> "QUOTE_IN_QUOTED")]

\* CSVParser.__init__: self.transition_rules
transition_rules ==
    [FIELD_START |->
        (quotechar :> "QUOTED" @@ delimiter :> "FIELD_START"
         @@ "OTHERS" :> "UNQUOTED"),
     UNQUOTED |->
        (delimiter :> "FIELD_START" @@ "OTHERS" :> "UNQUOTED"),
     QUOTED |->
        (quotechar :> "QUOTE_IN_QUOTED" @@ "OTHERS" :> "QUOTED"),
     QUOTE_IN_QUOTED |->
        (quotechar :> "QUOTED" @@ delimiter :> "FIELD_START"
         @@ "OTHERS" :> "QUOTE_IN_QUOTED")]

\* "if char in rules[curr_state]: rules[curr_state][char] else rules[curr_state]['OTHERS']"
NextState(state, char) ==
    IF char \in DOMAIN transition_rules[state]
    THEN transition_rules[state][char]
    ELSE transition_rules[state]["OTHERS"]

\* parse_row whose walk leaves QUOTE_IN_QUOTED for UNQUOTED on an ordinary
\* character while is_complete_row keeps the table's entry
ParseNextState_lenient(state, char) ==
    IF state = "QUOTE_IN_QUOTED" /\ char \notin DOMAIN transition_rules[state]
    THEN "UNQUOTED"
    ELSE NextState(state, char)

\* parse_row: curr_state after the character has been looked at, the two
\* assignments "curr_state = self.transition_rules[curr_state][...]"
ParseNextState(state, char) ==
    IF char \in DOMAIN transition_rules[state]
    THEN transition_rules[state][char]
    ELSE transition_rules[state]["OTHERS"]

\* parse_row that drops the second quote of a doubled quote
Buffered_noescape(state, content, char) ==
    IF char \in DOMAIN transition_rules[state]
    THEN content
    ELSE Append(content, char)

\* parse_row: field_content after the character has been looked at
Buffered(state, content, char) ==
    IF char \in DOMAIN transition_rules[state]
    THEN IF state = "QUOTE_IN_QUOTED" /\ char = quotechar
         THEN Append(content, char)
         ELSE content
    ELSE Append(content, char)

\* parse_row: one iteration of "for char in line"
ParseStep(st, char) ==
    LET next == ParseNextState(st.curr_state, char)
        content == Buffered(st.curr_state, st.field_content, char)
    IN  IF next = "FIELD_START"
        THEN [curr_state |-> next,
              field_list |-> Append(st.field_list, content),
              field_content |-> <<>>]
        ELSE [curr_state |-> next,
              field_list |-> st.field_list,
              field_content |-> content]

\* parse_row: the locals before the first character
ParseStart ==
    [curr_state |-> "FIELD_START", field_list |-> <<>>, field_content |-> <<>>]

RECURSIVE ParseLoop(_, _, _)
ParseLoop(st, str, i) ==
    IF i > Len(str) THEN st ELSE ParseLoop(ParseStep(st, str[i]), str, i + 1)

\* CSVParser.parse_row
parse_row(str) ==
    LET st == ParseLoop(ParseStart, str, 1)
    IN  Append(st.field_list, st.field_content)

RECURSIVE CompleteLoop(_, _, _)
CompleteLoop(state, str, i) ==
    IF i > Len(str) THEN state
    ELSE CompleteLoop(NextState(state, str[i]), str, i + 1)

\* CSVParser.is_complete_row
is_complete_row(str) == CompleteLoop("FIELD_START", str, 1)  # "QUOTED"

\* The characters of the lines given to the tokenizer.
Chars == {"a", "1", delimiter, quotechar}

RECURSIVE Strings(_, _)
Strings(alphabet, n) ==
    IF n = 0 THEN {<<>>}
    ELSE LET shorter == Strings(alphabet, n - 1)
         IN  shorter \cup {Append(w, c) : w \in shorter, c \in alphabet}

\* parse_row: one iteration of the loop over the characters
ParseRowStep ==
    /\ pr_ret = <<>>
    /\ pr_i < Len(text)
    /\ LET st == ParseStep([curr_state |-> curr_state,
                            field_list |-> field_list,
                            field_content |-> field_content], text[pr_i + 1])
       IN  /\ curr_state' = st.curr_state
           /\ field_list' = st.field_list
           /\ field_content' = st.field_content
    /\ pr_i' = pr_i + 1
    /\ UNCHANGED <<text, pr_ret, ic_i, ic_state, ic_ret>>
    /\ UNCHANGED nonParseVars

\* parse_row: end of line, "field_list.append(''.join(field_content)); return"
ParseRowReturn ==
    /\ pr_ret = <<>>
    /\ pr_i = Len(text)
    /\ field_list' = Append(field_list, field_content)
    /\ pr_ret' = field_list'
    /\ UNCHANGED <<text, pr_i, curr_state, field_content, ic_i, ic_state, ic_ret>>
    /\ UNCHANGED nonParseVars

\* is_complete_row: one iteration of the loop over the characters
IsCompleteStep ==
    /\ ic_ret = "running"
    /\ ic_i < Len(text)
    /\ ic_state' = NextState(ic_state, text[ic_i + 1])
    /\ ic_i' = ic_i + 1
    /\ UNCHANGED <<text, pr_i, curr_state, field_list, field_content, pr_ret, ic_ret>>
    /\ UNCHANGED nonParseVars

\* is_complete_row: "return curr_state != States.QUOTED"
IsCompleteReturn ==
    /\ ic_ret = "running"
    /\ ic_i = Len(text)
    /\ ic_ret' = IF ic_state # "QUOTED" THEN "True" ELSE "False"
    /\ UNCHANGED <<text, pr_i, curr_state, field_list, field_content, pr_ret,
                   ic_i, ic_state>>
    /\ UNCHANGED nonParseVars

\* Both calls are entered with the same text.
NewParse ==
    /\ text \in Strings(Chars, MaxLineLen)
    /\ pr_i = 0
    /\ curr_state = "FIELD_START"
    /\ field_list = <<>>
    /\ field_content = <<>>
    /\ pr_ret = <<>>
    /\ ic_i = 0
    /\ ic_state = "FIELD_START"
    /\ ic_ret = "running"

\* No tokenizer call is in progress.
IdleParse ==
    /\ text = <<>>
    /\ pr_i = 0
    /\ curr_state = "FIELD_START"
    /\ field_list = <<>>
    /\ field_content = <<>>
    /\ pr_ret = <<>>
    /\ ic_i = 0
    /\ ic_state = "FIELD_START"
    /\ ic_ret = "running"

(***************************************************************************)
(* CSVStream: the row adapter.                                             *)
(***************************************************************************)
Digits == {"0", "1", "2", "3", "4", "5", "6", "7", "8", "9"}

DigitValue(c) ==
    CASE c = "0" -> 0 [] c = "1" -> 1 [] c = "2" -> 2 [] c = "3" -> 3
      [] c = "4" -> 4 [] c = "5" -> 5 [] c = "6" -> 6 [] c = "7" -> 7
      [] c = "8" -> 8 [] c = "9" -> 9

\* Characters int() and float() strip from both ends.
Whitespace == {" ", "\n", "\t", "\r"}

RECURSIVE LStrip(_)
LStrip(str) ==
    IF str # <<>> /\ Head(str) \in Whitespace THEN LStrip(Tail(str)) ELSE str

RECURSIVE RStrip(_)
RStrip(str) ==
    IF str # <<>> /\ str[Len(str)] \in Whitespace
    THEN RStrip(SubSeq(str, 1, Len(str) - 1))
    ELSE str

Strip(str) == RStrip(LStrip(str))

\* The text after an optional leading sign.
Unsigned(str) ==
    IF str # <<>> /\ Head(str) \in {"+", "-"} THEN Tail(str) ELSE str

IsDigits(str) == str # <<>> /\ \A i \in 1..Len(str) : str[i] \in Digits

RECURSIVE DigitsValue(_)
DigitsValue(str) ==
    IF str = <<>> THEN 0
    ELSE 10 * DigitsValue(SubSeq(str, 1, Len(str) - 1)) + DigitValue(str[Len(str)])

\* int(item) does not raise ValueError
IsInt(item) == IsDigits(Unsigned(Strip(item)))

\* int(item)
IntOf(item) ==
    LET body == Strip(item)
        magnitude == DigitsValue(Unsigned(body))
    IN  IF Head(body) = "-" THEN -magnitude ELSE magnitude

\* CSVStream._value, for text made of digits, signs, whitespace and
\* characters that occur in no number
_value(item) == IF IsInt(item) THEN IntCell(IntOf(item)) ELSE TextCell(item)

RECURSIVE Join(_)
\* '\n'.join(row_list)
Join(lines) ==
    IF lines = <<>> THEN <<>>
    ELSE IF Len(lines) = 1 THEN lines[1]
    ELSE lines[1] \o <<"\n">> \o Join(Tail(lines))

RECURSIVE FillDict(_, _, _, _)
\* "row_content[head[i]] = value" for the cells i..., beyond head dropped
FillDict(d, hd, cells, i) ==
    IF i > Len(cells) THEN d
    ELSE IF i > Len(hd) THEN FillDict(d, hd, cells, i + 1)
    ELSE FillDict(Put(d, hd[i], _value(cells[i])), hd, cells, i + 1)

\* a backfill that leaves the missing columns out of the row
BackfillDict_omit(d, hd, j) == d

RECURSIVE BackfillDict(_, _, _)
\* "for j in range(i+1, len(head)): row_content[head[j]] = ''"
BackfillDict(d, hd, j) ==
    IF j > Len(hd) THEN d
    ELSE BackfillDict(Put(d, hd[j], TextCell(<<>>)), hd, j + 1)

\* iter_rows: the row_content built from the cells of one logical row
RowContent(hdr, hd, cells) ==
    IF hdr
    THEN [kind |-> "dict",
          val |-> BackfillDict(FillDict(EmptyDict, hd, cells, 1), hd, Len(cells) + 1)]
    ELSE [kind |-> "list",
          val |-> [i \in 1..Len(cells) |-> _value(cells[i])]]

NoRowContent == [kind |-> "none", val |-> <<>>]

\* The physical lines a source can produce.
SourceLines ==
    { <<>>,
      <<"1">>,
      <<"a", ",", "1">>,
      <<"a", ",", "1", ",", "1">>,
      <<"\"", "a">>,
      <<"a", "\"">> }

\* iter_rows, first next(): "head = parse_row(next(source)) if self.header else []"
StartHeader ==
    /\ pc = "start"
    /\ header
    /\ \E first \in SourceLines :
          /\ head' = parse_row(first)
          /\ pc' = "loop"
    /\ UNCHANGED <<header, row_list, line, out, nyield, consumed, covered>>
    /\ UNCHANGED nonStreamVars

\* iter_rows, first next() on a source without lines: next(source) raises
\* StopIteration inside the generator, which surfaces as RuntimeError
StartHeaderEmpty ==
    /\ pc = "start"
    /\ header
    /\ pc' = "error"
    /\ UNCHANGED <<header, head, row_list, line, out, nyield, consumed, covered>>
    /\ UNCHANGED nonStreamVars

StartNoHeader ==
    /\ pc = "start"
    /\ ~header
    /\ head' = <<>>
    /\ pc' = "loop"
    /\ UNCHANGED <<header, row_list, line, out, nyield, consumed, covered>>
    /\ UNCHANGED nonStreamVars

\* physical lines glued together without the line terminator
Accumulated_nosep(lines, l) ==
    SelectSeq(Join(Append(lines, l)), LAMBDA c : c # "\n")

\* '\n'.join(row_list) after row_list.append(line)
Accumulated(lines, l) == Join(Append(lines, l))

\* a yield that forgets "row_list = []"
ResetRowList_keep(lines) == lines

\* row_list after a row has been yielded
ResetRowList(lines) == <<>>

\* iter_rows: one iteration of "for line in source"
PullLine ==
    /\ pc = "loop"
    /\ consumed < MaxLines
    /\ \E l \in SourceLines :
          LET row == Accumulated(row_list, l)
          IN  /\ line' = l
              /\ consumed' = consumed + 1
              /\ IF ~is_complete_row(row)
                 THEN /\ row_list' = Append(row_list, l)
                      /\ UNCHANGED <<out, nyield, covered>>
                 ELSE /\ out' = RowContent(header, head, parse_row(row))
                      /\ row_list' = ResetRowList(Append(row_list, l))
                      /\ nyield' = nyield + 1
                      /\ covered' = covered + Len(row_list) + 1
    /\ UNCHANGED <<header, pc, head>>
    /\ UNCHANGED nonStreamVars

\* iter_rows: the source is exhausted, the loop ends and the generator returns
SourceExhausted ==
    /\ pc = "loop"
    /\ pc' = "done"
    /\ UNCHANGED <<header, head, row_list, line, out, nyield, consumed, covered>>
    /\ UNCHANGED nonStreamVars

\* CSVStream.__init__ and the call of iter_rows
NewStream ==
    /\ header \in BOOLEAN
    /\ pc = "start"
    /\ head = <<>>
    /\ row_list = <<>>
    /\ line = <<>>
    /\ out = NoRowContent
    /\ nyield = 0
    /\ consumed = 0
    /\ covered = 0

\* No row adapter is in use.
IdleStream ==
    /\ header = FALSE
    /\ pc = "start"
    /\ head = <<>>
    /\ row_list = <<>>
    /\ line = <<>>
    /\ out = NoRowContent
    /\ nyield = 0
    /\ consumed = 0
    /\ covered = 0

(***************************************************************************)
(* LRUCache: a map from keys to the nodes of a doubly linked list that     *)
(* runs from the sentinel self._head to the sentinel self._tail.  A node   *)
(* is named by a number; nodes no reference leads to any more are dropped. *)
(***************************************************************************)
HeadId == 0

TailId == 1

NoneId == -1

\* Node.__init__
Node(key, val) == [key |-> key, val |-> val, prev |-> NoneId, next |-> NoneId]

\* The name of a node created now.
FreshId(ns) == CHOOSE id \in 2..(Cardinality(DOMAIN ns) + 2) :
                  /\ id \notin DOMAIN ns
                  /\ \A other \in 2..(id - 1) : other \in DOMAIN ns

\* LRUCache._remove
_remove(ns, node) ==
    LET prev == ns[node].prev
        nxt == ns[node].next
    IN  [ns EXCEPT ![nxt].prev = prev, ![prev].next = nxt]

\* LRUCache._move_to_end
_move_to_end(ns, node) ==
    LET prev == ns[TailId].prev
        nxt == TailId
        linked == [ns EXCEPT ![node].prev = prev, ![node].next = nxt]
    IN  [linked EXCEPT ![prev].next = node, ![nxt].prev = node]

\* The nodes the cache and the sentinels still lead to.
Live(ns, cache) ==
    LET keep == {HeadId, TailId} \cup {cache[k] : k \in DOMAIN cache}
    IN  [id \in keep |-> ns[id]]

\* The keys met on the way from a node along .next up to the tail sentinel.
RECURSIVE WalkNext(_, _, _)
WalkNext(ns, id, fuel) ==
    IF id = TailId \/ id \notin DOMAIN ns \/ fuel = 0 THEN <<>>
    ELSE <<ns[id].key>> \o WalkNext(ns, ns[id].next, fuel - 1)

\* The keys met on the way from a node along .prev up to the head sentinel.
RECURSIVE WalkPrev(_, _, _)
WalkPrev(ns, id, fuel) ==
    IF id = HeadId \/ id \notin DOMAIN ns \/ fuel = 0 THEN <<>>
    ELSE <<ns[id].key>> \o WalkPrev(ns, ns[id].prev, fuel - 1)

\* LRUCache.keys
keys(ns) == WalkPrev(ns, ns[TailId].prev, Cardinality(DOMAIN ns))

\* LRUCache.size
size(cache) == Cardinality(DOMAIN cache)

\* The keys in the order LRUCache.save writes them, from self._head.next on.
KeysFromHead(ns) == WalkNext(ns, ns[HeadId].next, Cardinality(DOMAIN ns))

\* The keys and values a cache is used with.
LruKeys == 1..MaxKey

LruVals == {10, 20}

LruRet(op, key, val) == [op |-> op, key |-> key, val |-> val]

\* The touch order of the keys after key has been touched, for the keys kept.
Touched(order, key, kept) ==
    SelectSeq(SelectSeq(order, LAMBDA k : k # key) \o <<key>>,
              LAMBDA k : k \in kept)

\* LRUCache.get, key in self._cache
get_hit(key) ==
    /\ key \in DOMAIN _cache
    /\ LET node == _cache[key]
       IN  /\ nodes' = _move_to_end(_remove(nodes, node), node)
           /\ lru_ret' = LruRet("get", key, nodes[node].val)
    /\ evicted' = 0
    /\ recency' = Touched(recency, key, DOMAIN _cache)
    /\ UNCHANGED <<_cache, _cap>>
    /\ UNCHANGED nonLruVars

\* LRUCache.get, key not in self._cache: return -1
get_miss(key) ==
    /\ key \notin DOMAIN _cache
    /\ lru_ret' = LruRet("get", key, -1)
    /\ evicted' = 0
    /\ UNCHANGED <<_cache, nodes, _cap, recency>>
    /\ UNCHANGED nonLruVars

get == \E key \in LruKeys : get_hit(key) \/ get_miss(key)

\* an eviction that takes the node next to the tail
EvictNode_newest(ns) == ns[TailId].prev

\* LRUCache.put: "evict_node = self._head.next"
EvictNode(ns) == ns[HeadId].next

\* LRUCache.put
put ==
    \E key \in LruKeys, val \in LruVals :
       LET unlinked == IF key \in DOMAIN _cache
                       THEN _remove(nodes, _cache[key])
                       ELSE nodes
           id == FreshId(nodes)
           cache1 == Put(_cache, key, id)
           created == [n \in (DOMAIN unlinked) \cup {id} |->
                          IF n = id THEN Node(key, val) ELSE unlinked[n]]
           appended == _move_to_end(created, id)
           evict_node == EvictNode(appended)
           over == size(cache1) > _cap
           cache2 == IF over
                     THEN [k \in (DOMAIN cache1) \ {appended[evict_node].key}
                              |-> cache1[k]]
                     ELSE cache1
           final == IF over THEN _remove(appended, evict_node) ELSE appended
       IN  /\ _cache' = cache2
           /\ nodes' = Live(final, cache2)
           /\ lru_ret' = LruRet("put", key, val)
           /\ evicted' = IF over THEN appended[evict_node].key ELSE 0
           /\ recency' = Touched(recency, key, DOMAIN cache2)
           /\ UNCHANGED _cap
           /\ UNCHANGED nonLruVars

\* LRUCache.peek
peek ==
    /\ \E key \in LruKeys :
          lru_ret' = LruRet("peek", key,
                            IF key \in DOMAIN _cache
                            THEN nodes[_cache[key]].val ELSE -1)
    /\ evicted' = 0
    /\ UNCHANGED <<_cache, nodes, _cap, recency>>
    /\ UNCHANGED nonLruVars

\* The two sentinels linked to each other.
EmptyList ==
    [id \in {HeadId, TailId} |->
        IF id = HeadId
        THEN [key |-> 0, val |-> 0, prev |-> NoneId, next |-> TailId]
        ELSE [key |-> 0, val |-> 0, prev |-> HeadId, next |-> NoneId]]

\* LRUCache.__init__
NewLru ==
    /\ _cache = EmptyDict
    /\ nodes = EmptyList
    /\ _cap \in 1..MaxCap
    /\ lru_ret = LruRet("init", 0, 0)
    /\ evicted = 0
    /\ recency = <<>>

\* No cache is in use.
IdleLru ==
    /\ _cache = EmptyDict
    /\ nodes = EmptyList
    /\ _cap = 1
    /\ lru_ret = LruRet("init", 0, 0)
    /\ evicted = 0
    /\ recency = <<>>

(***************************************************************************)
(* RateLimiter of rate/ratelimiter.py.  time.time() is the variable now,   *)
(* which Tick advances; a defaultdict is a dict whose missing keys are     *)
(* created with the default when they are read.                            *)
(***************************************************************************)
Clients == {"c1", "c2"}

Strategies == {"fixed", "sliding_log", "bucket"}

\* self._fixed_window = None
NoWindow == -1

\* the bucket_capacity and refill_rate a token-bucket limiter is built with
BucketCapacities == {1, 2}

RefillRates == {0, 1}

RlRet(client, allowed, at) == [client |-> client, allowed |-> allowed, at |-> at]

\* self._counter[client_id] of a defaultdict(int)
CounterOf(counter, client) == Get(counter, client, 0)

\* self._logs[client_id] of a defaultdict(deque)
LogOf(logs, client) == Get(logs, client, <<>>)

\* a log entry that is dropped although it lies on the cutoff
BeforeCutoff_inclusive(ts, cutoff) == ts <= cutoff

\* RateLimiter._allow_sliding: "log_queue[0] < cutoff"
BeforeCutoff(ts, cutoff) == ts < cutoff

\* RateLimiter._allow_sliding: the while loop that prunes the log
RECURSIVE Prune(_, _)
Prune(log_queue, cutoff) ==
    IF Len(log_queue) > 0 /\ BeforeCutoff(log_queue[1], cutoff)
    THEN Prune(Tail(log_queue), cutoff)
    ELSE log_queue

\* The requests granted so far, with one more for client at time at.
Grant(g, client, at) == [g EXCEPT ![client][at] = @ + 1]

\* RateLimiter._allow_sliding
_allow_sliding(client_id) ==
    LET cutoff == now - _window_seconds
        log_queue == Prune(LogOf(_logs, client_id), cutoff)
        allowed == ~(Len(log_queue) >= _max_requests)
    IN  /\ _logs' = Put(_logs, client_id,
                        IF allowed THEN Append(log_queue, now) ELSE log_queue)
        /\ rl_ret' = RlRet(client_id, allowed, now)
        /\ granted' = IF allowed THEN Grant(granted, client_id, now) ELSE granted
        /\ UNCHANGED <<_fixed_window, _counter, _buckets>>

\* RateLimiter._allow_fixed
_allow_fixed(client_id) ==
    LET window == now \div _window_seconds
        counter == IF window # _fixed_window THEN EmptyDict ELSE _counter
        count == CounterOf(counter, client_id)
        allowed == ~(count >= _max_requests)
    IN  /\ _fixed_window' = window
        /\ _counter' = Put(counter, client_id,
                           IF allowed THEN count + 1 ELSE count)
        /\ rl_ret' = RlRet(client_id, allowed, now)
        /\ granted' = IF allowed THEN Grant(granted, client_id, now) ELSE granted
        /\ UNCHANGED <<_logs, _buckets>>

\* RateLimiter._allow_bucket
_allow_bucket(client_id) ==
    LET bucket == Get(_buckets, client_id, <<_bucket_capacity, now>>)
        token == bucket[1] + (now - bucket[2]) * _refill_rate
        stored == Min2(_bucket_capacity, token)
        allowed == ~(stored < 1)
    IN  /\ _buckets' = Put(_buckets, client_id,
                           <<IF allowed THEN stored - 1 ELSE stored, now>>)
        /\ rl_ret' = RlRet(client_id, allowed, now)
        /\ granted' = IF allowed THEN Grant(granted, client_id, now) ELSE granted
        /\ UNCHANGED <<_fixed_window, _counter, _logs>>

\* RateLimiter.allow
allow ==
    /\ \E client_id \in Clients :
          \/ _strategy = "fixed" /\ _allow_fixed(client_id)
          \/ _strategy = "sliding_log" /\ _allow_sliding(client_id)
          \/ _strategy \notin {"fixed", "sliding_log"} /\ _allow_bucket(client_id)
    /\ UNCHANGED <<_max_requests, _window_seconds, _strategy,
                   _bucket_capacity, _refill_rate, now>>
    /\ UNCHANGED nonRlVars

\* time.time() moves on between two calls.
TickRl ==
    /\ now < MaxNow
    /\ now' = now + 1
    /\ UNCHANGED <<_max_requests, _window_seconds, _strategy, _bucket_capacity,
                   _refill_rate, _fixed_window, _counter, _logs, _buckets,
                   rl_ret, granted>>
    /\ UNCHANGED nonRlVars

\* The state RateLimiter.__init__ leaves, whatever its arguments.
EmptyLimiter ==
    /\ _fixed_window = NoWindow
    /\ _counter = EmptyDict
    /\ _logs = EmptyDict
    /\ _buckets = EmptyDict
    /\ now = 0
    /\ rl_ret = RlRet("", FALSE, -1)
    /\ granted = [c \in Clients |-> [t \in 0..MaxNow |-> 0]]

\* RateLimiter.__init__; bucket_capacity and refill_rate stay None (written
\* 0, never read) unless the strategy is the token bucket.
NewLimiter ==
    /\ _max_requests \in 0..MaxRequests
    /\ _window_seconds \in 1..MaxWindowSeconds
    /\ _strategy \in Strategies
    /\ IF _strategy \in {"fixed", "sliding_log"}
       THEN _bucket_capacity = 0 /\ _refill_rate = 0
       ELSE _bucket_capacity \in BucketCapacities /\ _refill_rate \in RefillRates
    /\ EmptyLimiter

\* No limiter is in use.
IdleRl ==
    /\ _max_requests = 0
    /\ _window_seconds = 1
    /\ _strategy = "fixed"
    /\ _bucket_capacity = 0
    /\ _refill_rate = 0
    /\ EmptyLimiter

(***************************************************************************)
(* Database of code/database/database.py.  time.time() is the variable     *)
(* clock, which TickDb advances; keys are text, values are strings.        *)
(***************************************************************************)
DbKeys == {<<"a">>, <<"a", "b">>}

DbValues == {"x", "y"}

Prefixes == {<<>>, <<"a">>, <<"a", "b">>, <<"b">>}

\* ttl: int | None
NoTtl == [none |-> TRUE, n |-> 0]

Ttl(n) == [none |-> FALSE, n |-> n]

TtlArgs == {NoTtl} \cup {Ttl(n) : n \in 0..MaxTtl}

\* What a call returns: None, a string, a bool or a list of pairs.
DbRet(op, key, at, kind, val, flag, items) ==
    [op |-> op, key |-> key, at |-> at, kind |-> kind, val |-> val,
     flag |-> flag, items |-> items]

DbNone(op, key, at) == DbRet(op, key, at, "None", "", FALSE, <<>>)

DbStr(op, key, at, val) == DbRet(op, key, at, "str", val, FALSE, <<>>)

DbBool(op, key, at, flag) == DbRet(op, key, at, "bool", "", flag, <<>>)

DbList(op, key, at, items) == DbRet(op, key, at, "list", "", FALSE, items)

\* del d[k]
Del(d, k) == [x \in (DOMAIN d) \ {k} |-> d[x]]

\* an expiry one second later than set computes
Expiry_late(t, ttl) == t + ttl + 1

\* Database.set: "time.time() + ttl"
Expiry(t, ttl) == t + ttl

\* Database._is_expired
_is_expired(expire, key, t) == key \in DOMAIN expire /\ expire[key] < t

\* The order of two characters.
CharRank(ch) == IF ch = "a" THEN 0 ELSE 1

\* a < b for two strings
RECURSIVE StrLess(_, _)
StrLess(a, b) ==
    IF b = <<>> THEN FALSE
    ELSE IF a = <<>> THEN TRUE
    ELSE IF Head(a) # Head(b) THEN CharRank(Head(a)) < CharRank(Head(b))
    ELSE StrLess(Tail(a), Tail(b))

\* sorted(...) of a set of keys
RECURSIVE SortedKeys(_)
SortedKeys(ks) ==
    IF ks = {} THEN <<>>
    ELSE LET least == CHOOSE k \in ks : \A other \in ks \ {k} : StrLess(k, other)
         IN  <<least>> \o SortedKeys(ks \ {least})

\* k.startswith(prefix)
StartsWith(k, prefix) ==
    Len(prefix) <= Len(k) /\ SubSeq(k, 1, Len(prefix)) = prefix

\* The list Database.scan_by_prefix builds; scan is the case of prefix "".
ScanList(data, expire, prefix, t) ==
    LET kept == {k \in DOMAIN data :
                    StartsWith(k, prefix) /\ ~_is_expired(expire, k, t)}
        order == SortedKeys(kept)
    IN  [i \in 1..Len(order) |-> <<order[i], data[order[i]]>>]

\* The last set of a key that no delete followed, as the caller knows it.
Remember(kept, key, value, ttl, t) ==
    Put(kept, key, [value |-> value, ttl |-> ttl, at |-> t])

\* Database.set
db_set ==
    /\ \E key \in DbKeys, value \in DbValues, ttl \in TtlArgs :
          /\ _data' = Put(_data, key, value)
          /\ _expire' = IF ~ttl.none THEN Put(_expire, key, Expiry(clock, ttl.n))
                        ELSE IF key \in DOMAIN _expire THEN Del(_expire, key)
                        ELSE _expire
          /\ db_ret' = DbNone("set", key, clock)
          /\ last_set' = Remember(last_set, key, value, ttl, clock)
    /\ UNCHANGED clock
    /\ UNCHANGED nonDbVars

\* Database.get
db_get ==
    /\ \E key \in DbKeys :
          db_ret' = IF key \in DOMAIN _data /\ ~_is_expired(_expire, key, clock)
                    THEN DbStr("get", key, clock, _data[key])
                    ELSE DbNone("get", key, clock)
    /\ UNCHANGED <<_data, _expire, clock, last_set>>
    /\ UNCHANGED nonDbVars

\* Database.delete, key not in self._data
delete_absent(key) ==
    /\ key \notin DOMAIN _data
    /\ db_ret' = DbBool("delete", key, clock, FALSE)
    /\ UNCHANGED <<_data, _expire, last_set>>

\* Database.delete, key in self._data
delete_present(key) ==
    /\ key \in DOMAIN _data
    /\ _data' = Del(_data, key)
    /\ LET is_expired == IF key \in DOMAIN _expire
                         THEN _is_expired(_expire, key, clock) ELSE FALSE
       IN  db_ret' = DbBool("delete", key, clock, ~is_expired)
    /\ _expire' = IF key \in DOMAIN _expire THEN Del(_expire, key) ELSE _expire
    /\ last_set' = Del(last_set, key)

\* Database.delete
db_delete ==
    /\ \E key \in DbKeys : delete_absent(key) \/ delete_present(key)
    /\ UNCHANGED clock
    /\ UNCHANGED nonDbVars

\* Database.scan
scan ==
    /\ db_ret' = DbList("scan", <<>>, clock, ScanList(_data, _expire, <<>>, clock))
    /\ UNCHANGED <<_data, _expire, clock, last_set>>
    /\ UNCHANGED nonDbVars

\* Database.scan_by_prefix
scan_by_prefix ==
    /\ \E prefix \in Prefixes :
          db_ret' = DbList("scan_by_prefix", prefix, clock,
                           ScanList(_data, _expire, prefix, clock))
    /\ UNCHANGED <<_data, _expire, clock, last_set>>
    /\ UNCHANGED nonDbVars

\* time.time() moves on between two calls.
TickDb ==
    /\ clock < MaxClock
    /\ clock' = clock + 1
    /\ UNCHANGED <<_data, _expire, db_ret, last_set>>
    /\ UNCHANGED nonDbVars

\* Database.__init__
NewDatabase ==
    /\ _data = EmptyDict
    /\ _expire = EmptyDict
    /\ clock = 0
    /\ db_ret = DbNone("init", <<>>, -1)
    /\ last_set = EmptyDict

\* No database is in use.
IdleDb == NewDatabase

InitDb == NewDatabase /\ IdleAgg /\ IdleParse /\ IdleStream /\ IdleLru /\ IdleRl

NextDb == db_set \/ db_get \/ db_delete \/ scan \/ scan_by_prefix \/ TickDb

SpecDb == InitDb /\ [][NextDb]_vars

InitLru == NewLru /\ IdleAgg /\ IdleParse /\ IdleStream /\ IdleRl /\ IdleDb

NextLru == put \/ get \/ peek

SpecLru == InitLru /\ [][NextLru]_vars

InitRl == NewLimiter /\ IdleAgg /\ IdleParse /\ IdleStream /\ IdleLru /\ IdleDb

NextRl == allow \/ TickRl

SpecRl == InitRl /\ [][NextRl]_vars

InitParse == NewParse /\ IdleAgg /\ IdleStream /\ IdleLru /\ IdleRl /\ IdleDb

NextParse == ParseRowStep \/ ParseRowReturn \/ IsCompleteStep \/ IsCompleteReturn

SpecParse == InitParse /\ [][NextParse]_vars

InitStream == NewStream /\ IdleAgg /\ IdleParse /\ IdleLru /\ IdleRl /\ IdleDb

NextStream ==
    \/ StartHeader
    \/ StartHeaderEmpty
    \/ StartNoHeader
    \/ PullLine
    \/ SourceExhausted

SpecStream == InitStream /\ [][NextStream]_vars

InitAgg == NewAggregator /\ IdleParse /\ IdleStream /\ IdleLru /\ IdleRl /\ IdleDb

NextAgg == add_row \/ flush

SpecAgg == InitAgg /\ [][NextAgg]_vars

(***************************************************************************)
(* Properties of the window aggregator.                                    *)
(***************************************************************************)
Tumbling == window_type # "sliding"

\* The column of the fed rows that holds the value.
ValueColumn == "v"

RECURSIVE ForwardedCount(_)
ForwardedCount(rs) ==
    IF rs = <<>> THEN 0
    ELSE (IF Head(rs) = <<>> THEN 0 ELSE Head(rs)[1][CountKey])
         + ForwardedCount(Tail(rs))

\* C1: pipeline conservation.  Every tumbling add_row forwards at most one
\* Summary, the rows counted in the forwarded Summaries and the rows of the
\* open window are exactly the rows fed, and after a flush the counts of the
\* forwarded Summaries add up to the number of rows fed.
C1_Conservation ==
    Tumbling =>
        /\ (ret.op = "add_row" => Len(ret.items) <= 1)
        /\ \A i \in 1..Len(results) : Len(results[i]) = 1
        /\ ForwardedCount(results) + Len(_rows) = fed
        /\ (ret.op = "flush" => ForwardedCount(results) = fed)

C1_Witness ==
    /\ Tumbling
    /\ ret.op = "flush"
    /\ fed >= 3
    /\ Len(results) >= 2

\* C2: window membership.  Every row folded into the open tumbling window
\* has window_start <= timestamp < window_end, where window_end is
\* window_start + window_size.
C2_WindowMembership ==
    Tumbling =>
        \A i \in 1..Len(_rows) :
            LET window_end == _window_start + window_size
            IN  /\ _window_start <= _rows[i][time_column].n
                /\ _rows[i][time_column].n < window_end

\* C3: boundary tie-break.  A row whose timestamp equals window_end is not
\* counted in the Summary of the closing window: that Summary counts the rows
\* folded before, and the row alone opens the window that starts at its
\* timestamp; every Summary a later close emits counts all rows of its window.
C3_BoundaryTieBreak ==
    [][/\ (Tumbling /\ fed' = fed + 1
            /\ row_in'[time_column].n = _window_start + window_size)
           => /\ _window_start' = row_in'[time_column].n
              /\ _rows' = <<row_in'>>
              /\ (_rows # <<>> => Len(ret'.items) = 1)
              /\ \A i \in 1..Len(ret'.items) :
                     ret'.items[i][CountKey] = Len(_rows)
       /\ (Tumbling /\ ret'.items # <<>>)
           => ret'.items[1][CountKey] = Len(_rows)
      ]_vars

C3_Witness ==
    /\ Tumbling
    /\ window_size = 2
    /\ fed = 2
    /\ ret.op = "add_row"
    /\ ret.kind = "list"
    /\ time_column \in DOMAIN row_in
    /\ row_in[time_column].n = 2
    /\ _window_start = 2
    /\ _rows = <<row_in>>

\* C4: emission rule.  A tumbling add_row returns a Summary exactly when the
\* timestamp is >= window_end and some row has been folded since the last
\* close or flush; a timestamp below window_end returns None and the row is
\* folded in place.
C4_EmissionRule ==
    [][(Tumbling /\ fed' = fed + 1)
          => LET ts == row_in'[time_column].n
                 window_end == _window_start + window_size
             IN  /\ Truthy(ret') <=> (ts >= window_end /\ _rows # <<>>)
                 /\ Truthy(ret') => (ret'.kind = "list" /\ Len(ret'.items) = 1)
                 /\ ~Truthy(ret') => ret'.kind = "None"
                 /\ ts < window_end
                       => /\ ret'.kind = "None"
                          /\ _rows' = Append(_rows, row_in')
                          /\ _window_start' = _window_start
      ]_vars

C4_Witness ==
    /\ Tumbling
    /\ ret.op = "add_row"
    /\ ret.kind = "list"
    /\ Len(ret.items) = 1
    /\ time_column \in DOMAIN row_in
    /\ row_in[time_column].n >= _window_start
    /\ fed >= 2

\* C5: flush returns the Summary of the open window whatever the timestamps
\* and leaves no folded rows; with no row folded since the last close or
\* flush it returns the empty list, never a Summary with count 0.
C5_Flush ==
    [][ret'.op = "flush"
          => /\ _rows' = <<>>
             /\ _rows # <<>>
                   => /\ Len(ret'.items) = 1
                      /\ ret'.items[1][CountKey] = Len(_rows)
             /\ _rows = <<>> => ret'.items = <<>>
             /\ \A i \in 1..Len(ret'.items) : ret'.items[i][CountKey] > 0
      ]_vars

C5_Witness ==
    /\ ret.op = "flush"
    /\ Len(ret.items) = 1
    /\ _rows = <<>>
    /\ fed >= 1
    /\ time_column \in DOMAIN row_in
    /\ row_in[time_column].n < _window_start + window_size

RECURSIVE SeqSum(_)
SeqSum(q) == IF q = <<>> THEN 0 ELSE Head(q) + SeqSum(Tail(q))

\* The value fields of the rows, in order.
ValuesOf(rows) ==
    LET numeric == SelectSeq(rows, LAMBDA r : IsNumber(r[ValueColumn]))
    IN  [i \in 1..Len(numeric) |-> numeric[i][ValueColumn].n]

SeqMin(q) == CHOOSE m \in {q[i] : i \in 1..Len(q)} : \A i \in 1..Len(q) : m <= q[i]

SeqMax(q) == CHOOSE m \in {q[i] : i \in 1..Len(q)} : \A i \in 1..Len(q) : m >= q[i]

\* C6: summary contents.  Every Summary returned for a window has count equal
\* to the number of rows folded, sum, min and max equal to the sum, least and
\* greatest of their value fields, and avg = sum / count, so that
\* avg * count = sum and min <= avg <= max.
C6_SummaryContents ==
    [][(ret'.items # <<>> /\ (Tumbling \/ ret'.op = "flush"))
          => LET s == ret'.items[1]
                 vals == ValuesOf(_rows)
                 sum == Key("sum", ValueColumn)
                 min == Key("min", ValueColumn)
                 max == Key("max", ValueColumn)
                 avg == Key("avg", ValueColumn)
             IN  /\ s[CountKey] = Len(_rows)
                 /\ {sum, min, max, avg} \subseteq DOMAIN s
                 /\ s[sum] = SeqSum(vals)
                 /\ s[min] = SeqMin(vals)
                 /\ s[max] = SeqMax(vals)
                 /\ s[avg] = TrueDiv(s[sum], s[CountKey])
                 /\ s[avg].num * s[CountKey] = s[sum] * s[avg].den
                 /\ s[min] * s[avg].den <= s[avg].num
                 /\ s[avg].num <= s[max] * s[avg].den
      ]_vars

\* C7: every Summary emitted when a tumbling window closes exposes
\* window_start and window_end of the closed window, with
\* window_end = window_start + window_size.
C7_SummaryBounds ==
    [][(Tumbling /\ ret'.items # <<>>)
          => LET s == ret'.items[1]
             IN  /\ Key("window_start", "") \in DOMAIN s
                 /\ Key("window_end", "") \in DOMAIN s
                 /\ s[Key("window_start", "")] = _window_start
                 /\ s[Key("window_end", "")] = _window_start + window_size
      ]_vars

(***************************************************************************)
(* Properties of the row adapter and the tokenizer.                        *)
(***************************************************************************)
\* C8: multi-line row joining.  Each pulled line is added to the buffer; at
\* the first line where is_complete_row of the lines joined by the line
\* terminator is true exactly one Row is yielded, it is the tokenization of
\* that joined text, and the buffer is empty after the yield; until then
\* nothing is yielded and the buffered text is incomplete.
C8_MultiLineJoin ==
    [][consumed' = consumed + 1
          => LET joined == Join(Append(row_list, line'))
             IN  /\ IF is_complete_row(joined)
                    THEN /\ nyield' = nyield + 1
                         /\ out' = RowContent(header, head, parse_row(joined))
                         /\ row_list' = <<>>
                    ELSE /\ nyield' = nyield
                         /\ out' = out
                         /\ row_list' = Append(row_list, line')
                 /\ row_list' # <<>> => ~is_complete_row(Join(row_list'))
      ]_vars

C8_Witness ==
    /\ ~header
    /\ out.kind = "list"
    /\ nyield >= 1
    /\ consumed >= 2
    /\ row_list = <<>>
    /\ line = <<"a", "\"">>
    /\ \E i \in 1..Len(out.val) :
          \E j \in 1..Len(out.val[i].s) : out.val[i].s[j] = "\n"

\* C9: end-of-source leniency.  When the source is exhausted every physical
\* line pulled after the header has gone into a yielded Row: an incomplete
\* accumulation is tokenized and yielded as the final Row, so no buffered
\* line is left behind.
C9_EndOfSourceLeniency ==
    pc = "done" => (covered = consumed /\ row_list = <<>>)

\* C10: lenient recovery.  In QUOTE_IN_QUOTED a character that is neither the
\* quote character nor the delimiter is buffered and the state becomes
\* UNQUOTED, in parse_row and in is_complete_row.
C10_LenientRecovery ==
    [][/\ (pr_i' = pr_i + 1 /\ curr_state = "QUOTE_IN_QUOTED"
            /\ text[pr_i'] \notin {quotechar, delimiter})
           => /\ curr_state' = "UNQUOTED"
              /\ field_content' = Append(field_content, text[pr_i'])
       /\ (ic_i' = ic_i + 1 /\ ic_state = "QUOTE_IN_QUOTED"
            /\ text[ic_i'] \notin {quotechar, delimiter})
           => ic_state' = "UNQUOTED"
      ]_vars

\* A cell body in which every quote character is one of a pair.
RECURSIVE WellEscaped(_)
WellEscaped(str) ==
    IF str = <<>> THEN TRUE
    ELSE IF Head(str) # quotechar THEN WellEscaped(Tail(str))
    ELSE /\ Len(str) >= 2
         /\ str[2] = quotechar
         /\ WellEscaped(SubSeq(str, 3, Len(str)))

\* The body with each pair of quote characters replaced by one.
RECURSIVE Unescaped(_)
Unescaped(str) ==
    IF str = <<>> THEN <<>>
    ELSE IF Head(str) # quotechar THEN <<Head(str)>> \o Unescaped(Tail(str))
    ELSE <<quotechar>> \o Unescaped(SubSeq(str, 3, Len(str)))

\* The text is one quoted cell: quote, well-escaped body, quote.
IsQuotedCell(str) ==
    /\ Len(str) >= 2
    /\ str[1] = quotechar
    /\ str[Len(str)] = quotechar
    /\ WellEscaped(SubSeq(str, 2, Len(str) - 1))

\* C11: doubled-quote escape.  In parse_row the opening quote and the quote
\* read in QUOTED add no character, a quote read right after it adds exactly
\* one quote character and returns to QUOTED, and a line that is one quoted
\* cell yields the single cell whose text is the body with every pair of
\* quotes replaced by one quote.
C11_DoubledQuote ==
    /\ [](pr_ret # <<>> /\ IsQuotedCell(text)
            => pr_ret = <<Unescaped(SubSeq(text, 2, Len(text) - 1))>>)
    /\ [][(pr_i' = pr_i + 1 /\ text[pr_i'] = quotechar)
             => /\ curr_state = "FIELD_START"
                    => (curr_state' = "QUOTED" /\ field_content' = field_content)
                /\ curr_state = "QUOTED"
                    => /\ curr_state' = "QUOTE_IN_QUOTED"
                       /\ field_content' = field_content
                /\ curr_state = "QUOTE_IN_QUOTED"
                    => /\ curr_state' = "QUOTED"
                       /\ field_content' = Append(field_content, quotechar)
                /\ field_list' = field_list
         ]_vars

C11_Witness ==
    /\ text = <<quotechar, "a", quotechar, quotechar, quotechar>>
    /\ pr_ret = << <<"a", quotechar>> >>

\* is_complete_row's state before it reads character i of the text.
StateBefore(i) == CompleteLoop("FIELD_START", SubSeq(text, 1, i - 1), 1)

\* Delimiters among the first n characters read outside the QUOTED state.
DelimiterCount(n) ==
    Cardinality({i \in 1..n : text[i] = delimiter /\ StateBefore(i) # "QUOTED"})

\* C12: cell count.  parse_row has emitted one cell per delimiter read outside
\* the QUOTED state and returns delimiter_count + 1 cells; the empty line
\* yields one empty cell, and a leading, a trailing and the second of two
\* adjacent delimiters each yield an empty cell.
C12_CellCount ==
    /\ pr_ret = <<>> => Len(field_list) = DelimiterCount(pr_i)
    /\ pr_ret # <<>>
         => /\ Len(pr_ret) = DelimiterCount(Len(text)) + 1
            /\ text = <<>> => pr_ret = << <<>> >>
            /\ (text # <<>> /\ text[1] = delimiter) => pr_ret[1] = <<>>
            /\ (text # <<>> /\ text[Len(text)] = delimiter
                  /\ StateBefore(Len(text)) # "QUOTED")
                 => pr_ret[Len(pr_ret)] = <<>>
            /\ \A i \in 2..Len(text) :
                  (text[i - 1] = delimiter /\ text[i] = delimiter
                     /\ StateBefore(i - 1) # "QUOTED")
                    => pr_ret[DelimiterCount(i)] = <<>>

C12_Witness ==
    /\ text = <<quotechar, delimiter, quotechar, delimiter, delimiter>>
    /\ Len(pr_ret) = 3

\* C13: completeness check.  is_complete_row and parse_row are in the same
\* state after the same number of characters, and is_complete_row returns
\* False exactly when the state after the last character is QUOTED.
C13_CompleteRow ==
    /\ pr_i = ic_i => curr_state = ic_state
    /\ ic_ret # "running" => (ic_ret = "False" <=> ic_state = "QUOTED")
    /\ (ic_ret # "running" /\ pr_i = Len(text))
         => (ic_ret = "False" <=> curr_state = "QUOTED")
    /\ ic_ret # "running" => (ic_ret = "True" <=> is_complete_row(text))

C13_Witness ==
    /\ ic_ret = "False"
    /\ pr_ret # <<>>
    /\ curr_state = "QUOTED"
    /\ Len(text) >= 3

\* The names in the header, and whether a name occurs once in it.
HeaderNames == {head[i] : i \in 1..Len(head)}

OccursOnce(i) == \A j \in 1..Len(head) : head[j] = head[i] => j = i

\* C14: header policy.  With a header the first physical line becomes the
\* column names and is not yielded; every yielded row is keyed by exactly the
\* header names, cells beyond the header are dropped and header columns the
\* row has no cell for hold the empty text.
C14_HeaderPolicy ==
    [][/\ (header /\ pc = "start" /\ pc' = "loop")
           => /\ \E first \in SourceLines : head' = parse_row(first)
              /\ nyield' = 0
              /\ out' = NoRowContent
              /\ row_list' = <<>>
              /\ consumed' = 0
       /\ (header /\ nyield' = nyield + 1)
           => LET cells == parse_row(Join(Append(row_list, line')))
              IN  /\ out'.kind = "dict"
                  /\ DOMAIN out'.val = HeaderNames
                  /\ \A j \in 1..Len(head) :
                        j > Len(cells) => out'.val[head[j]] = TextCell(<<>>)
                  /\ \A i \in 1..Len(head) :
                        (i <= Len(cells) /\ OccursOnce(i))
                          => out'.val[head[i]] = _value(cells[i])
      ]_vars

C14_Witness ==
    /\ header
    /\ nyield >= 1
    /\ out.kind = "dict"
    /\ Len(head) = 3
    /\ line = <<"1">>
    /\ row_list = <<>>

\* C15: caller-contract violations are surfaced.  An add_row call given a row
\* without the timestamp column or with a non-numeric value ends in an error
\* and the row is not folded.
C15_ContractViolations ==
    [][(ret'.op = "add_row"
          /\ (\/ time_column \notin DOMAIN row_in'
              \/ ~IsNumber(row_in'[ValueColumn])))
          => /\ ret'.kind \in {"KeyError", "TypeError", "ValueError"}
             /\ _rows' = _rows
             /\ fed' = fed
      ]_vars

\* C16: lazy, bounded consumption.  The lines pulled after the header are the
\* lines of the rows yielded so far plus the buffered lines, the buffered
\* lines form one still incomplete row, a step pulls at most one line, and
\* right after a yield nothing beyond the yielded rows has been pulled.
C16_LazyConsumption ==
    /\ [](/\ consumed = covered + Len(row_list)
          /\ nyield <= covered
          /\ \A k \in 1..Len(row_list) :
                ~is_complete_row(Join(SubSeq(row_list, 1, k))))
    /\ [][/\ consumed' \in {consumed, consumed + 1}
          /\ nyield' \in {nyield, nyield + 1}
          /\ nyield' = nyield + 1
               => (consumed' = consumed + 1 /\ consumed' = covered'
                   /\ row_list' = <<>>)
         ]_vars

C16_Witness ==
    /\ pc = "loop"
    /\ nyield = 2
    /\ consumed = 3
    /\ covered = 3
    /\ row_list = <<>>

\* C17: empty source.  Iterating a source without lines ends without an
\* error and yields no row, with and without a header.
C17_EmptySource ==
    /\ pc # "error"
    /\ (pc = "done" /\ consumed = 0) => nyield = 0

\* C18: typed cells.  Every cell parse_row returns is the coerced value of
\* its text: an Integer for a signed digit string, a Float for a float
\* literal, the unchanged text otherwise.
C18_TypedCells ==
    pr_ret # <<>>
      => \A i \in 1..Len(pr_ret) : TextCell(pr_ret[i]) = _value(pr_ret[i])

\* C19: constant-size aggregator state.  The tumbling aggregator retains the
\* running aggregates of the open window and no constituent rows.
C19_ConstantState ==
    Tumbling => _rows = <<>>

(***************************************************************************)
(* C20                                                                     *)
(***************************************************************************)
Reverse(seq) == [i \in 1..Len(seq) |-> seq[Len(seq) + 1 - i]]

KeySet(seq) == {seq[i] : i \in 1..Len(seq)}

\* The cache, its list and the touch order agree.
LruConsistent ==
    /\ size(_cache) <= _cap
    /\ KeySet(KeysFromHead(nodes)) = DOMAIN _cache
    /\ Len(KeysFromHead(nodes)) = size(_cache)
    /\ KeysFromHead(nodes) = recency
    /\ keys(nodes) = Reverse(recency)
    /\ \A k \in DOMAIN _cache : nodes[_cache[k]].key = k

\* What one call does to the set of cached keys.
LruStep ==
    LET key == lru_ret'.key
        isNew == key \notin DOMAIN _cache
        full == size(_cache) = _cap
    IN  /\ lru_ret'.op = "put" /\ isNew /\ full =>
              /\ evicted' = Head(recency)
              /\ DOMAIN _cache' = ((DOMAIN _cache) \cup {key}) \ {Head(recency)}
              /\ size(_cache') = _cap
        /\ lru_ret'.op = "put" /\ ~(isNew /\ full) =>
              /\ evicted' = 0
              /\ DOMAIN _cache' = (DOMAIN _cache) \cup {key}
        /\ lru_ret'.op = "put" => recency'[Len(recency')] = key
        /\ lru_ret'.op = "get" /\ ~isNew =>
              /\ DOMAIN _cache' = DOMAIN _cache
              /\ recency' = SelectSeq(recency, LAMBDA k : k # key) \o <<key>>
        /\ \/ lru_ret'.op = "peek"
           \/ lru_ret'.op = "get" /\ isNew
           => UNCHANGED <<_cache, nodes, recency>>

\* C20: after any sequence of put, get and peek on a cache of capacity
\* cap >= 1 the size is at most cap and the keys of the linked list are the
\* keys of the lookup map; a put of a new key into a full cache evicts
\* exactly one key, the one least recently touched by a put or a successful
\* get; peek and a failed get leave the recency order alone.
C20_CapacityAndEviction == []LruConsistent /\ [][LruStep]_vars

\* A put of the new key 3 into a full cache of capacity 2 has just evicted
\* key 2, the least recently touched one, and kept key 1.
C20_Witness ==
    /\ _cap = 2
    /\ lru_ret.op = "put"
    /\ lru_ret.key = 3
    /\ evicted = 2
    /\ recency = <<1, 3>>
    /\ _cache[1] = 2

(***************************************************************************)
(* C21                                                                     *)
(***************************************************************************)
\* The requests of a client granted at the times lo..hi.
RECURSIVE GrantedIn(_, _, _)
GrantedIn(client, lo, hi) ==
    IF lo > hi THEN 0
    ELSE (IF hi \in 0..MaxNow THEN granted[client][hi] ELSE 0)
         + GrantedIn(client, lo, hi - 1)

\* The aligned windows the clock can reach.
AlignedWindows == 0..(MaxNow \div _window_seconds)

\* No client is granted more than max_requests requests in one window.
RateBound ==
    /\ _strategy = "fixed" =>
          \A client \in Clients, w \in AlignedWindows :
             GrantedIn(client, w * _window_seconds,
                       w * _window_seconds + _window_seconds - 1)
                <= _max_requests
    /\ _strategy = "sliding_log" =>
          \A client \in Clients, t \in 0..MaxNow :
             GrantedIn(client, t - _window_seconds, t) <= _max_requests

\* A denied request leaves the client's counter and log as they were.
DeniedStep ==
    now' = now /\ rl_ret'.at = now /\ ~rl_ret'.allowed =>
       /\ CounterOf(_counter', rl_ret'.client) = CounterOf(_counter, rl_ret'.client)
       /\ LogOf(_logs', rl_ret'.client) = LogOf(_logs, rl_ret'.client)
       /\ granted' = granted

\* C21: with a non-decreasing clock and any interleaving of allow calls of
\* any clients, the requests of one client that allow granted never exceed
\* max_requests within one aligned window of window_seconds under the
\* "fixed" strategy, nor within any interval [t - window_seconds, t] under
\* the "sliding_log" strategy; a denied request leaves that client's
\* counter or log unchanged.
C21_RateBound == []RateBound /\ [][DeniedStep]_vars

\* Under "sliding_log" with two requests per two seconds, client c1 was
\* granted requests at 0 and at 2 and has just been denied one at 2: the
\* request at 0 lies on the cutoff and still counts.
C21_Witness ==
    /\ _strategy = "sliding_log"
    /\ _max_requests = 2
    /\ _window_seconds = 2
    /\ now = 2
    /\ rl_ret = RlRet("c1", FALSE, 2)
    /\ LogOf(_logs, "c1") = <<0, 2>>
    /\ GrantedIn("c1", 0, 2) = 2

(***************************************************************************)
(* C22                                                                     *)
(***************************************************************************)
\* The key was last set with a ttl and the clock is strictly past the time
\* of that set plus the ttl.
PastTtl(key) ==
    /\ key \in DOMAIN last_set
    /\ ~last_set[key].ttl.none
    /\ clock > last_set[key].at + last_set[key].ttl.n

\* The key was last set without a ttl.
SetForGood(key) == key \in DOMAIN last_set /\ last_set[key].ttl.none

\* The keys of the list the last scan returned.
ScannedKeys == {db_ret.items[i][1] : i \in 1..Len(db_ret.items)}

\* The last call was made at the present time.
JustReturned(ops) == db_ret.op \in ops /\ db_ret.at = clock

\* C22: after set(key, value, ttl), once the clock is strictly past the set
\* time plus ttl, get(key) returns None and scan and scan_by_prefix omit
\* the key until it is set again; a later set(key, value) without ttl
\* removes the expiry, so that the key never expires; and the keys holding
\* an expiry are always among the keys holding data.
C22_TtlExpiry ==
    /\ JustReturned({"get"}) /\ PastTtl(db_ret.key) => db_ret.kind = "None"
    /\ JustReturned({"scan", "scan_by_prefix"}) =>
          \A key \in DbKeys : PastTtl(key) => key \notin ScannedKeys
    /\ \A key \in DbKeys : SetForGood(key) => key \notin DOMAIN _expire
    /\ JustReturned({"get"}) /\ SetForGood(db_ret.key) =>
          db_ret.kind = "str" /\ db_ret.val = last_set[db_ret.key].value
    /\ JustReturned({"scan"}) =>
          \A key \in DbKeys : SetForGood(key) => key \in ScannedKeys
    /\ DOMAIN _expire \subseteq DOMAIN _data

\* Key "a" was set at time 0 with ttl 1 and is still stored at time 2, where
\* get("a") has just returned None.
C22_Witness ==
    /\ clock = 2
    /\ db_ret = DbNone("get", <<"a">>, 2)
    /\ <<"a">> \in DOMAIN _data
    /\ <<"a">> \in DOMAIN last_set
    /\ last_set[<<"a">>].ttl = Ttl(1)
    /\ last_set[<<"a">>].at = 0

====
